---- MODULE Spec2Model ----
(***************************************************************************)
(* Planning-poker room server: the in-memory Room Store                    *)
(* (server/src/services/RoomService.ts) and the Socket.IO gateway          *)
(* (server/src/handlers/roomHandlers.ts, current handler set, and the      *)
(* disconnect handler of server/src/server.ts).                            *)
(*                                                                         *)
(* Encoding.  A uuid is the next value of the counter uuid.  A string that *)
(* is trimmed (a user name) is a sequence of one-character strings.  An    *)
(* optional value (socketId?, revealedAt?, name?) is None or Some(x).      *)
(* Card values are tokens ("1", "2", "?").  Dates are readings of the      *)
(* clock now.  A handler is an operator from the state and its input to the *)
(* new state, the acknowledgement (reply) and the events it emits, in      *)
(* order; the action applies it.  currentRoundIndex is 0-based as in the source, so the       *)
(* current round of room r is r.rounds[r.currentRoundIndex + 1].           *)
(***************************************************************************)
EXTENDS Integers, Sequences, FiniteSets, TLC

VARIABLES
    rooms,   \* RoomService.rooms : Map<roomId, Room>
    conn,    \* per connection id: "live" or "closed"
    subs,    \* Socket.IO broadcast groups: connection id -> set of room ids
    uuid,    \* number of uuids generated so far
    now      \* the clock read by new Date() / Date.now()

vars == <<rooms, conn, subs, uuid, now>>

\* ---------------------------------------------------------------- bounds
\* uuids the run may draw: a room takes 2 + the number of its rounds, a new
\* participant takes 1
MaxUuid == 5

\* connection ids (socket.id)
Sockets == {"s1", "s2"}

\* ---------------------------------------------------------------- values
None == <<>>
Some(x) == <<x>>

\* userName of a join-room payload: plain, padded, blank
UserNames == { <<"a">>, <<" ", "b">>, <<" ">> }

CardOverride == <<"1", "2", "3">>

VoteInputs == { "1", "2" }

DEFAULT_ROOM_SETTINGS ==
    [anonymous |-> FALSE,
     cardValues |-> <<"0.5", "1", "3", "5", "8", "13", "21", "coffee", "?">>]

\* ---------------------------------------------------------------- helpers
\* String.prototype.trim on a sequence of characters
RECURSIVE TrimStart(_)
TrimStart(s) ==
    IF s = <<>> THEN s
    ELSE IF Head(s) = " " THEN TrimStart(Tail(s)) ELSE s

RECURSIVE TrimEnd(_)
TrimEnd(s) ==
    IF s = <<>> THEN s
    ELSE IF s[Len(s)] = " " THEN TrimEnd(SubSeq(s, 1, Len(s) - 1)) ELSE s

Trim(s) == TrimEnd(TrimStart(s))

\* Array.prototype.find / findIndex: the first of the matching indexes
\* (1-based), 0 when nothing matches (JS: undefined / -1)
FindIndex(matching) ==
    IF matching = {} THEN 0
    ELSE CHOOSE i \in matching : \A j \in matching : i <= j

\* { ...DEFAULT_ROOM_SETTINGS, ...payload.settings }
MergeSettings(override) ==
    IF override = None THEN DEFAULT_ROOM_SETTINGS
    ELSE [k \in DOMAIN DEFAULT_ROOM_SETTINGS |->
             IF k \in DOMAIN override[1] THEN override[1][k]
             ELSE DEFAULT_ROOM_SETTINGS[k]]

\* Map.set / Map.delete on the rooms map
MapSet(rs, k, v) == [x \in DOMAIN rs \cup {k} |-> IF x = k THEN v ELSE rs[x]]
MapDelete(rs, ks) == [x \in DOMAIN rs \ ks |-> rs[x]]

\* ------------------------------------------------------------ Room Store
\* Every operation takes the rooms map rs and yields the new map together
\* with what the method returns; room = None stands for a null result.

CurrentRound(room) == 
    IF room.currentRoundIndex + 1 \in DOMAIN room.rounds
    THEN Some(room.rounds[room.currentRoundIndex + 1])
    ELSE None

\* createRoom that records the room id as createdBy
createRoom_CreatedByRoom(rs, payload, u, t) ==
    LET roomId == u + 1
        userId == u + 2
        creator == [id |-> userId, name |-> payload.userName, isCreator |-> TRUE,
                    connectedAt |-> t, isOnline |-> TRUE, socketId |-> None]
        rounds == [i \in 1..Len(payload.roundNames) |->
                      [id |-> u + 2 + i, name |-> payload.roundNames[i],
                       status |-> "voting", votes |-> <<>>, revealedAt |-> None]]
        room == [id |-> roomId, name |-> payload.roomName, createdBy |-> roomId,
                 createdAt |-> t, settings |-> MergeSettings(payload.settings),
                 rounds |-> rounds, currentRoundIndex |-> 0, status |-> "waiting",
                 participants |-> <<creator>>]
    IN  [rooms |-> MapSet(rs, roomId, room), room |-> Some(room), userId |-> userId,
         uuid |-> u + 2 + Len(payload.roundNames)]

\* createRoom(payload): ids are drawn in the order roomId, userId, round ids
createRoom(rs, payload, u, t) ==
    LET roomId == u + 1
        userId == u + 2
        creator == [id |-> userId, name |-> payload.userName, isCreator |-> TRUE,
                    connectedAt |-> t, isOnline |-> TRUE, socketId |-> None]
        rounds == [i \in 1..Len(payload.roundNames) |->
                      [id |-> u + 2 + i, name |-> payload.roundNames[i],
                       status |-> "voting", votes |-> <<>>, revealedAt |-> None]]
        room == [id |-> roomId, name |-> payload.roomName, createdBy |-> userId,
                 createdAt |-> t, settings |-> MergeSettings(payload.settings),
                 rounds |-> rounds, currentRoundIndex |-> 0, status |-> "waiting",
                 participants |-> <<creator>>]
    IN  [rooms |-> MapSet(rs, roomId, room), room |-> Some(room), userId |-> userId,
         uuid |-> u + 2 + Len(payload.roundNames)]

getRoom(rs, roomId) == IF roomId \in DOMAIN rs THEN Some(rs[roomId]) ELSE None

\* Array.from(this.rooms.values()): the room ids in insertion order
RECURSIVE SortedIds(_)
SortedIds(S) ==
    IF S = {} THEN <<>>
    ELSE LET m == CHOOSE x \in S : \A y \in S : x <= y
         IN  <<m>> \o SortedIds(S \ {m})

getAllRooms(rs) == SortedIds(DOMAIN rs)

deleteRoom(rs, roomId) == MapDelete(rs, {roomId})

\* addParticipant that puts the new participant at the front of the list
addParticipant_Prepend(rs, roomId, userName, u, t) ==
    IF roomId \notin DOMAIN rs
    THEN [rooms |-> rs, room |-> None, userId |-> 0, uuid |-> u]
    ELSE LET room == rs[roomId]
             k == FindIndex({ i \in DOMAIN room.participants : room.participants[i].name = userName })
         IN  IF k > 0
             THEN LET r2 == [room EXCEPT !.participants[k].isOnline = TRUE]
                  IN  [rooms |-> MapSet(rs, roomId, r2), room |-> Some(r2),
                       userId |-> room.participants[k].id, uuid |-> u]
             ELSE LET participant == [id |-> u + 1, name |-> userName,
                                      isCreator |-> FALSE, connectedAt |-> t,
                                      isOnline |-> TRUE, socketId |-> None]
                      r2 == [room EXCEPT !.participants = <<participant>> \o @]
                  IN  [rooms |-> MapSet(rs, roomId, r2), room |-> Some(r2),
                       userId |-> u + 1, uuid |-> u + 1]

\* addParticipant that flags the participant it appends as a creator
addParticipant_AsCreator(rs, roomId, userName, u, t) ==
    IF roomId \notin DOMAIN rs
    THEN [rooms |-> rs, room |-> None, userId |-> 0, uuid |-> u]
    ELSE LET room == rs[roomId]
             k == FindIndex({ i \in DOMAIN room.participants : room.participants[i].name = userName })
         IN  IF k > 0
             THEN LET r2 == [room EXCEPT !.participants[k].isOnline = TRUE]
                  IN  [rooms |-> MapSet(rs, roomId, r2), room |-> Some(r2),
                       userId |-> room.participants[k].id, uuid |-> u]
             ELSE LET participant == [id |-> u + 1, name |-> userName,
                                      isCreator |-> TRUE, connectedAt |-> t,
                                      isOnline |-> TRUE, socketId |-> None]
                      r2 == [room EXCEPT !.participants = Append(@, participant)]
                  IN  [rooms |-> MapSet(rs, roomId, r2), room |-> Some(r2),
                       userId |-> u + 1, uuid |-> u + 1]

\* addParticipant without the lookup of an existing participant by name
addParticipant_NoRejoin(rs, roomId, userName, u, t) ==
    IF roomId \notin DOMAIN rs
    THEN [rooms |-> rs, room |-> None, userId |-> 0, uuid |-> u]
    ELSE LET participant == [id |-> u + 1, name |-> userName,
                             isCreator |-> FALSE, connectedAt |-> t,
                             isOnline |-> TRUE, socketId |-> None]
             r2 == [rs[roomId] EXCEPT !.participants = Append(@, participant)]
         IN  [rooms |-> MapSet(rs, roomId, r2), room |-> Some(r2),
              userId |-> u + 1, uuid |-> u + 1]

addParticipant(rs, roomId, userName, u, t) ==
    IF roomId \notin DOMAIN rs
    THEN [rooms |-> rs, room |-> None, userId |-> 0, uuid |-> u]
    ELSE LET room == rs[roomId]
             k == FindIndex({ i \in DOMAIN room.participants : room.participants[i].name = userName })
         IN  IF k > 0
             THEN LET r2 == [room EXCEPT !.participants[k].isOnline = TRUE]
                  IN  [rooms |-> MapSet(rs, roomId, r2), room |-> Some(r2),
                       userId |-> room.participants[k].id, uuid |-> u]
             ELSE LET participant == [id |-> u + 1, name |-> userName,
                                      isCreator |-> FALSE, connectedAt |-> t,
                                      isOnline |-> TRUE, socketId |-> None]
                      r2 == [room EXCEPT !.participants = Append(@, participant)]
                  IN  [rooms |-> MapSet(rs, roomId, r2), room |-> Some(r2),
                       userId |-> u + 1, uuid |-> u + 1]

removeParticipant(rs, roomId, userId) ==
    IF roomId \notin DOMAIN rs THEN [rooms |-> rs, room |-> None]
    ELSE LET r2 == [rs[roomId] EXCEPT
                       !.participants = SelectSeq(@, LAMBDA p : p.id # userId)]
         IN  [rooms |-> MapSet(rs, roomId, r2), room |-> Some(r2)]

\* setParticipantOnline that keeps the binding of a participant that has one
setParticipantOnline_KeepBinding(rs, roomId, userId, socketId) ==
    IF roomId \notin DOMAIN rs THEN [rooms |-> rs, room |-> None]
    ELSE LET room == rs[roomId]
             k == FindIndex({ i \in DOMAIN room.participants : room.participants[i].id = userId })
             r2 == IF k > 0 /\ room.participants[k].socketId = None
                   THEN [room EXCEPT !.participants[k].isOnline = TRUE,
                                     !.participants[k].socketId = Some(socketId)]
                   ELSE room
         IN  [rooms |-> MapSet(rs, roomId, r2), room |-> Some(r2)]

setParticipantOnline(rs, roomId, userId, socketId) ==
    IF roomId \notin DOMAIN rs THEN [rooms |-> rs, room |-> None]
    ELSE LET room == rs[roomId]
             k == FindIndex({ i \in DOMAIN room.participants : room.participants[i].id = userId })
             r2 == IF k > 0
                   THEN [room EXCEPT !.participants[k].isOnline = TRUE,
                                     !.participants[k].socketId = Some(socketId)]
                   ELSE room
         IN  [rooms |-> MapSet(rs, roomId, r2), room |-> Some(r2)]

setParticipantOffline(rs, roomId, socketId) ==
    IF roomId \notin DOMAIN rs THEN [rooms |-> rs, room |-> None]
    ELSE LET room == rs[roomId]
             k == FindIndex({ i \in DOMAIN room.participants : room.participants[i].socketId = Some(socketId) })
             r2 == IF k > 0
                   THEN [room EXCEPT !.participants[k].isOnline = FALSE,
                                     !.participants[k].socketId = None]
                   ELSE room
         IN  [rooms |-> MapSet(rs, roomId, r2), room |-> Some(r2)]

\* submitVote that stores the vote in the first round whatever the cursor
submitVote_FirstRound(rs, roomId, userId, vote, t) ==
    IF roomId \notin DOMAIN rs THEN [rooms |-> rs, room |-> None]
    ELSE LET room == rs[roomId]
             c == 1
             k == FindIndex({ i \in DOMAIN room.participants : room.participants[i].id = userId })
         IN  IF CurrentRound(room) = None \/ k = 0
             THEN [rooms |-> rs, room |-> None]
             ELSE LET existingVoteIndex ==
                          FindIndex({ i \in DOMAIN room.rounds[c].votes : room.rounds[c].votes[i].userId = userId })
                      voteData == [userId |-> userId,
                                   userName |-> room.participants[k].name,
                                   value |-> vote, votedAt |-> t]
                      votes2 == IF existingVoteIndex > 0
                                THEN [room.rounds[c].votes EXCEPT ![existingVoteIndex] = voteData]
                                ELSE Append(room.rounds[c].votes, voteData)
                      status2 == IF Len(votes2) = Len(room.participants)
                                    /\ room.status = "waiting"
                                 THEN "active" ELSE room.status
                      r2 == [room EXCEPT !.rounds[c].votes = votes2, !.status = status2]
                  IN  [rooms |-> MapSet(rs, roomId, r2), room |-> Some(r2)]

\* submitVote that sets the status of the room from the count of the votes
submitVote_StatusFollowsVotes(rs, roomId, userId, vote, t) ==
    IF roomId \notin DOMAIN rs THEN [rooms |-> rs, room |-> None]
    ELSE LET room == rs[roomId]
             c == room.currentRoundIndex + 1
             k == FindIndex({ i \in DOMAIN room.participants : room.participants[i].id = userId })
         IN  IF CurrentRound(room) = None \/ k = 0
             THEN [rooms |-> rs, room |-> None]
             ELSE LET existingVoteIndex ==
                          FindIndex({ i \in DOMAIN room.rounds[c].votes : room.rounds[c].votes[i].userId = userId })
                      voteData == [userId |-> userId,
                                   userName |-> room.participants[k].name,
                                   value |-> vote, votedAt |-> t]
                      votes2 == IF existingVoteIndex > 0
                                THEN [room.rounds[c].votes EXCEPT ![existingVoteIndex] = voteData]
                                ELSE Append(room.rounds[c].votes, voteData)
                      status2 == IF Len(votes2) = Len(room.participants)
                                 THEN "active" ELSE "waiting"
                      r2 == [room EXCEPT !.rounds[c].votes = votes2, !.status = status2]
                  IN  [rooms |-> MapSet(rs, roomId, r2), room |-> Some(r2)]

\* submitVote that makes the room active on any vote
submitVote_ActiveOnAnyVote(rs, roomId, userId, vote, t) ==
    IF roomId \notin DOMAIN rs THEN [rooms |-> rs, room |-> None]
    ELSE LET room == rs[roomId]
             c == room.currentRoundIndex + 1
             k == FindIndex({ i \in DOMAIN room.participants : room.participants[i].id = userId })
         IN  IF CurrentRound(room) = None \/ k = 0
             THEN [rooms |-> rs, room |-> None]
             ELSE LET existingVoteIndex ==
                          FindIndex({ i \in DOMAIN room.rounds[c].votes : room.rounds[c].votes[i].userId = userId })
                      voteData == [userId |-> userId,
                                   userName |-> room.participants[k].name,
                                   value |-> vote, votedAt |-> t]
                      votes2 == IF existingVoteIndex > 0
                                THEN [room.rounds[c].votes EXCEPT ![existingVoteIndex] = voteData]
                                ELSE Append(room.rounds[c].votes, voteData)
                      status2 == IF room.status = "waiting"
                                 THEN "active" ELSE room.status
                      r2 == [room EXCEPT !.rounds[c].votes = votes2, !.status = status2]
                  IN  [rooms |-> MapSet(rs, roomId, r2), room |-> Some(r2)]

\* submitVote that pushes the vote without looking for an earlier one
submitVote_AlwaysPush(rs, roomId, userId, vote, t) ==
    IF roomId \notin DOMAIN rs THEN [rooms |-> rs, room |-> None]
    ELSE LET room == rs[roomId]
             c == room.currentRoundIndex + 1
             k == FindIndex({ i \in DOMAIN room.participants : room.participants[i].id = userId })
         IN  IF CurrentRound(room) = None \/ k = 0
             THEN [rooms |-> rs, room |-> None]
             ELSE LET voteData == [userId |-> userId,
                                   userName |-> room.participants[k].name,
                                   value |-> vote, votedAt |-> t]
                      r2 == [room EXCEPT !.rounds[c].votes = Append(@, voteData)]
                  IN  [rooms |-> MapSet(rs, roomId, r2), room |-> Some(r2)]

\* submitVote that records the vote of a userId that names no participant
submitVote_UnknownVoter(rs, roomId, userId, vote, t) ==
    IF roomId \notin DOMAIN rs THEN [rooms |-> rs, room |-> None]
    ELSE LET room == rs[roomId]
             c == room.currentRoundIndex + 1
             k == FindIndex({ i \in DOMAIN room.participants : room.participants[i].id = userId })
         IN  IF CurrentRound(room) = None
             THEN [rooms |-> rs, room |-> None]
             ELSE LET existingVoteIndex ==
                          FindIndex({ i \in DOMAIN room.rounds[c].votes : room.rounds[c].votes[i].userId = userId })
                      voteData == [userId |-> userId,
                                   userName |-> IF k > 0 THEN room.participants[k].name
                                                ELSE <<>>,
                                   value |-> vote, votedAt |-> t]
                      votes2 == IF existingVoteIndex > 0
                                THEN [room.rounds[c].votes EXCEPT ![existingVoteIndex] = voteData]
                                ELSE Append(room.rounds[c].votes, voteData)
                      status2 == IF Len(votes2) = Len(room.participants)
                                    /\ room.status = "waiting"
                                 THEN "active" ELSE room.status
                      r2 == [room EXCEPT !.rounds[c].votes = votes2, !.status = status2]
                  IN  [rooms |-> MapSet(rs, roomId, r2), room |-> Some(r2)]

submitVote(rs, roomId, userId, vote, t) ==
    IF roomId \notin DOMAIN rs THEN [rooms |-> rs, room |-> None]
    ELSE LET room == rs[roomId]
             c == room.currentRoundIndex + 1
             k == FindIndex({ i \in DOMAIN room.participants : room.participants[i].id = userId })
         IN  IF CurrentRound(room) = None \/ k = 0
             THEN [rooms |-> rs, room |-> None]
             ELSE LET existingVoteIndex ==
                          FindIndex({ i \in DOMAIN room.rounds[c].votes : room.rounds[c].votes[i].userId = userId })
                      voteData == [userId |-> userId,
                                   userName |-> room.participants[k].name,
                                   value |-> vote, votedAt |-> t]
                      votes2 == IF existingVoteIndex > 0
                                THEN [room.rounds[c].votes EXCEPT ![existingVoteIndex] = voteData]
                                ELSE Append(room.rounds[c].votes, voteData)
                      status2 == IF Len(votes2) = Len(room.participants)
                                    /\ room.status = "waiting"
                                 THEN "active" ELSE room.status
                      r2 == [room EXCEPT !.rounds[c].votes = votes2, !.status = status2]
                  IN  [rooms |-> MapSet(rs, roomId, r2), room |-> Some(r2)]

\* allVoted that counts only the participants that are online
allVoted_OnlineOnly(rs, roomId) ==
    IF roomId \notin DOMAIN rs THEN FALSE
    ELSE IF CurrentRound(rs[roomId]) = None THEN FALSE
    ELSE Len(CurrentRound(rs[roomId])[1].votes)
             = Len(SelectSeq(rs[roomId].participants, LAMBDA p : p.isOnline))

allVoted(rs, roomId) ==
    IF roomId \notin DOMAIN rs THEN FALSE
    ELSE IF CurrentRound(rs[roomId]) = None THEN FALSE
    ELSE Len(CurrentRound(rs[roomId])[1].votes) = Len(rs[roomId].participants)

\* revealVotes that reveals the round after the current one
revealVotes_RoundAhead(rs, roomId, t) ==
    IF roomId \notin DOMAIN rs THEN [rooms |-> rs, room |-> None]
    ELSE LET room == rs[roomId]
             c == room.currentRoundIndex + 2
         IN  IF c \notin DOMAIN room.rounds
             THEN [rooms |-> rs, room |-> None]
             ELSE LET r2 == [room EXCEPT !.rounds[c].status = "revealed",
                                         !.rounds[c].revealedAt = Some(t)]
                  IN  [rooms |-> MapSet(rs, roomId, r2), room |-> Some(r2)]

\* revealVotes that stamps revealedAt and leaves the status of the round
revealVotes_StampOnly(rs, roomId, t) ==
    IF roomId \notin DOMAIN rs THEN [rooms |-> rs, room |-> None]
    ELSE LET room == rs[roomId]
             c == room.currentRoundIndex + 1
         IN  IF CurrentRound(room) = None
             THEN [rooms |-> rs, room |-> None]
             ELSE LET r2 == [room EXCEPT !.rounds[c].revealedAt = Some(t)]
                  IN  [rooms |-> MapSet(rs, roomId, r2), room |-> Some(r2)]

revealVotes(rs, roomId, t) ==
    IF roomId \notin DOMAIN rs THEN [rooms |-> rs, room |-> None]
    ELSE LET room == rs[roomId]
             c == room.currentRoundIndex + 1
         IN  IF CurrentRound(room) = None
             THEN [rooms |-> rs, room |-> None]
             ELSE LET r2 == [room EXCEPT !.rounds[c].status = "revealed",
                                         !.rounds[c].revealedAt = Some(t)]
                  IN  [rooms |-> MapSet(rs, roomId, r2), room |-> Some(r2)]

\* nextRound with the last-round test off by one
nextRound_OffByOne(rs, roomId) ==
    IF roomId \notin DOMAIN rs THEN [rooms |-> rs, room |-> None]
    ELSE LET room == rs[roomId]
         IN  IF room.currentRoundIndex >= Len(room.rounds)
             THEN LET r2 == [room EXCEPT !.status = "completed"]
                  IN  [rooms |-> MapSet(rs, roomId, r2), room |-> Some(r2)]
             ELSE LET r2 == [room EXCEPT !.currentRoundIndex = @ + 1]
                  IN  [rooms |-> MapSet(rs, roomId, r2), room |-> Some(r2)]

\* nextRound that empties the round it leaves instead of the one it enters
nextRound_ClearsLeftRound(rs, roomId) ==
    IF roomId \notin DOMAIN rs THEN [rooms |-> rs, room |-> None]
    ELSE LET room == rs[roomId]
         IN  IF room.currentRoundIndex >= Len(room.rounds) - 1
             THEN LET r2 == [room EXCEPT !.status = "completed"]
                  IN  [rooms |-> MapSet(rs, roomId, r2), room |-> Some(r2)]
             ELSE LET c == room.currentRoundIndex + 1
                      r2 == [room EXCEPT !.currentRoundIndex = @ + 1,
                                         !.rounds[c].status = "voting",
                                         !.rounds[c].votes = <<>>]
                  IN  [rooms |-> MapSet(rs, roomId, r2), room |-> Some(r2)]

\* nextRound that advances only from a revealed round
nextRound_RevealedOnly(rs, roomId) ==
    IF roomId \notin DOMAIN rs THEN [rooms |-> rs, room |-> None]
    ELSE LET room == rs[roomId]
         IN  IF room.currentRoundIndex >= Len(room.rounds) - 1
             THEN LET r2 == [room EXCEPT !.status = "completed"]
                  IN  [rooms |-> MapSet(rs, roomId, r2), room |-> Some(r2)]
             ELSE IF room.rounds[room.currentRoundIndex + 1].status # "revealed"
             THEN [rooms |-> rs, room |-> Some(room)]
             ELSE LET c == room.currentRoundIndex + 2
                      r2 == [room EXCEPT !.currentRoundIndex = @ + 1,
                                         !.rounds[c].status = "voting",
                                         !.rounds[c].votes = <<>>]
                  IN  [rooms |-> MapSet(rs, roomId, r2), room |-> Some(r2)]

nextRound(rs, roomId) ==
    IF roomId \notin DOMAIN rs THEN [rooms |-> rs, room |-> None]
    ELSE LET room == rs[roomId]
         IN  IF room.currentRoundIndex >= Len(room.rounds) - 1
             THEN LET r2 == [room EXCEPT !.status = "completed"]
                  IN  [rooms |-> MapSet(rs, roomId, r2), room |-> Some(r2)]
             ELSE LET c == room.currentRoundIndex + 2
                      r2 == [room EXCEPT !.currentRoundIndex = @ + 1,
                                         !.rounds[c].status = "voting",
                                         !.rounds[c].votes = <<>>]
                  IN  [rooms |-> MapSet(rs, roomId, r2), room |-> Some(r2)]

\* -------------------------------------------------------- Session Gateway
\* io.to(roomId): the connections currently in the broadcast group
Subscribers(sb, roomId) == { s \in Sockets : roomId \in sb[s] }

RoomUpdate(sb, roomId, room) ==
    [event |-> "room-update", to |-> Subscribers(sb, roomId), room |-> room]

ErrorTo(s, message) ==
    [event |-> "error", to |-> {s}, message |-> message]

Failure(error) == Some([success |-> FALSE, error |-> error])

Success(room, userId) == Some([success |-> TRUE, room |-> room, userId |-> userId])

\* a handler run that changes nothing
Rejected(rs, sb, u, reply, emits) ==
    [rooms |-> rs, subs |-> sb, uuid |-> u, reply |-> reply, emits |-> emits]

\* socket.on('create-room')
onCreateRoom(rs, sb, u, t, s, payload) ==
    IF Trim(payload.userName) = <<>>
    THEN Rejected(rs, sb, u, Failure("User name is required"), <<>>)
    ELSE LET res == createRoom(rs, payload, u, t)
         IN  [rooms |-> res.rooms,
              subs |-> [sb EXCEPT ![s] = @ \cup {res.room[1].id}],
              uuid |-> res.uuid,
              reply |-> Success(res.room[1], res.userId),
              emits |-> <<>>]

\* join-room that broadcasts the room as addParticipant returned it, before
\* the joiner is bound to the connection
onJoinRoom_StaleSnapshot(rs, sb, u, t, s, payload) ==
    IF Trim(payload.userName) = <<>>
    THEN Rejected(rs, sb, u, Failure("User name is required"), <<>>)
    ELSE IF payload.roomId = 0
    THEN Rejected(rs, sb, u, Failure("Room ID is required"), <<>>)
    ELSE IF getRoom(rs, payload.roomId) = None
    THEN Rejected(rs, sb, u, Failure("Room not found"), <<>>)
    ELSE LET added == addParticipant(rs, payload.roomId, Trim(payload.userName), u, t)
             roomId == added.room[1].id
             sb2 == [sb EXCEPT ![s] = @ \cup {roomId}]
             bound == setParticipantOnline(added.rooms, roomId, added.userId, s)
             room == bound.rooms[roomId]
         IN  [rooms |-> bound.rooms, subs |-> sb2, uuid |-> added.uuid,
              reply |-> Success(room, added.userId),
              emits |-> <<RoomUpdate(sb2, roomId, added.room[1])>>]

\* join-room that binds the joiner without putting the connection in the
\* group of the room
onJoinRoom_NoSubscribe(rs, sb, u, t, s, payload) ==
    IF Trim(payload.userName) = <<>>
    THEN Rejected(rs, sb, u, Failure("User name is required"), <<>>)
    ELSE IF payload.roomId = 0
    THEN Rejected(rs, sb, u, Failure("Room ID is required"), <<>>)
    ELSE IF getRoom(rs, payload.roomId) = None
    THEN Rejected(rs, sb, u, Failure("Room not found"), <<>>)
    ELSE LET added == addParticipant(rs, payload.roomId, Trim(payload.userName), u, t)
             roomId == added.room[1].id
             bound == setParticipantOnline(added.rooms, roomId, added.userId, s)
             room == bound.rooms[roomId]
         IN  [rooms |-> bound.rooms, subs |-> sb, uuid |-> added.uuid,
              reply |-> Success(room, added.userId),
              emits |-> <<RoomUpdate(sb, roomId, room)>>]

\* socket.on('join-room')
onJoinRoom(rs, sb, u, t, s, payload) ==
    IF Trim(payload.userName) = <<>>
    THEN Rejected(rs, sb, u, Failure("User name is required"), <<>>)
    ELSE IF payload.roomId = 0
    THEN Rejected(rs, sb, u, Failure("Room ID is required"), <<>>)
    ELSE IF getRoom(rs, payload.roomId) = None
    THEN Rejected(rs, sb, u, Failure("Room not found"), <<>>)
    ELSE LET added == addParticipant(rs, payload.roomId, Trim(payload.userName), u, t)
             roomId == added.room[1].id
             sb2 == [sb EXCEPT ![s] = @ \cup {roomId}]
             bound == setParticipantOnline(added.rooms, roomId, added.userId, s)
             room == bound.rooms[roomId]
         IN  [rooms |-> bound.rooms, subs |-> sb2, uuid |-> added.uuid,
              reply |-> Success(room, added.userId),
              emits |-> <<RoomUpdate(sb2, roomId, room)>>]

\* the room-updates of a broadcast to every room of the Store
RECURSIVE UpdateAll(_, _, _)
UpdateAll(rs, ids, sb) ==
    IF ids = <<>> THEN <<>>
    ELSE <<RoomUpdate(sb, Head(ids), rs[Head(ids)])>> \o UpdateAll(rs, Tail(ids), sb)

\* submit-vote that broadcasts every room of the Store, as the disconnect
\* handler does
onSubmitVote_BroadcastAll(rs, sb, u, t, s, payload) ==
    LET res == submitVote(rs, payload.roomId, payload.userId, payload.vote, t)
    IN  IF res.room = None
        THEN Rejected(rs, sb, u, None, <<ErrorTo(s, "Failed to submit vote")>>)
        ELSE [rooms |-> res.rooms, subs |-> sb, uuid |-> u, reply |-> None,
              emits |-> UpdateAll(res.rooms, getAllRooms(res.rooms), sb)]

\* submit-vote that reveals as soon as everyone has voted
onSubmitVote_AutoReveal(rs, sb, u, t, s, payload) ==
    LET res == submitVote(rs, payload.roomId, payload.userId, payload.vote, t)
    IN  IF res.room = None
        THEN Rejected(rs, sb, u, None, <<ErrorTo(s, "Failed to submit vote")>>)
        ELSE IF allVoted(res.rooms, payload.roomId)
        THEN LET rev == revealVotes(res.rooms, payload.roomId, t)
             IN  [rooms |-> rev.rooms, subs |-> sb, uuid |-> u, reply |-> None,
                  emits |-> <<RoomUpdate(sb, payload.roomId, res.room[1]),
                              RoomUpdate(sb, payload.roomId, rev.room[1])>>]
        ELSE [rooms |-> res.rooms, subs |-> sb, uuid |-> u, reply |-> None,
              emits |-> <<RoomUpdate(sb, payload.roomId, res.room[1])>>]

\* socket.on('submit-vote')
onSubmitVote(rs, sb, u, t, s, payload) ==
    LET res == submitVote(rs, payload.roomId, payload.userId, payload.vote, t)
    IN  IF res.room = None
        THEN Rejected(rs, sb, u, None, <<ErrorTo(s, "Failed to submit vote")>>)
        ELSE [rooms |-> res.rooms, subs |-> sb, uuid |-> u, reply |-> None,
              emits |-> <<RoomUpdate(sb, payload.roomId, res.room[1])>>]

\* the host check with the isCreator test left out
IsHost_AnyParticipant(room, userId) ==
    FindIndex({ i \in DOMAIN room.participants : room.participants[i].id = userId }) > 0

\* the host check of reveal-votes and next-round
IsHost(room, userId) ==
    LET k == FindIndex({ i \in DOMAIN room.participants : room.participants[i].id = userId })
    IN  k > 0 /\ room.participants[k].isCreator

\* reveal-votes that reveals the round in the Store and broadcasts nothing
onRevealVotes_NoBroadcast(rs, sb, u, t, s, payload) ==
    IF getRoom(rs, payload.roomId) = None
    THEN Rejected(rs, sb, u, None, <<ErrorTo(s, "Room not found")>>)
    ELSE IF ~IsHost(rs[payload.roomId], payload.userId)
    THEN Rejected(rs, sb, u, None, <<ErrorTo(s, "Only the host can reveal votes")>>)
    ELSE [rooms |-> revealVotes(rs, payload.roomId, t).rooms, subs |-> sb,
          uuid |-> u, reply |-> None, emits |-> <<>>]

\* socket.on('reveal-votes')
onRevealVotes(rs, sb, u, t, s, payload) ==
    IF getRoom(rs, payload.roomId) = None
    THEN Rejected(rs, sb, u, None, <<ErrorTo(s, "Room not found")>>)
    ELSE IF ~IsHost(rs[payload.roomId], payload.userId)
    THEN Rejected(rs, sb, u, None, <<ErrorTo(s, "Only the host can reveal votes")>>)
    ELSE LET res == revealVotes(rs, payload.roomId, t)
         IN  [rooms |-> res.rooms, subs |-> sb, uuid |-> u, reply |-> None,
              emits |-> IF res.room = None THEN <<>>
                        ELSE <<RoomUpdate(sb, payload.roomId, res.room[1])>>]

\* next-round that says nothing when the room is not found
onNextRound_SilentOnMissing(rs, sb, u, t, s, payload) ==
    IF getRoom(rs, payload.roomId) = None
    THEN Rejected(rs, sb, u, None, <<>>)
    ELSE IF ~IsHost(rs[payload.roomId], payload.userId)
    THEN Rejected(rs, sb, u, None,
                  <<ErrorTo(s, "Only the host can move to next round")>>)
    ELSE LET res == nextRound(rs, payload.roomId)
         IN  [rooms |-> res.rooms, subs |-> sb, uuid |-> u, reply |-> None,
              emits |-> IF res.room = None THEN <<>>
                        ELSE <<RoomUpdate(sb, payload.roomId, res.room[1])>>]

\* socket.on('next-round')
onNextRound(rs, sb, u, t, s, payload) ==
    IF getRoom(rs, payload.roomId) = None
    THEN Rejected(rs, sb, u, None, <<ErrorTo(s, "Room not found")>>)
    ELSE IF ~IsHost(rs[payload.roomId], payload.userId)
    THEN Rejected(rs, sb, u, None,
                  <<ErrorTo(s, "Only the host can move to next round")>>)
    ELSE LET res == nextRound(rs, payload.roomId)
         IN  [rooms |-> res.rooms, subs |-> sb, uuid |-> u, reply |-> None,
              emits |-> IF res.room = None THEN <<>>
                        ELSE <<RoomUpdate(sb, payload.roomId, res.room[1])>>]

\* the loop of the disconnect handler over getAllRooms()
RECURSIVE OfflineInAll(_, _, _, _)
OfflineInAll(rs, ids, sb, s) ==
    IF ids = <<>> THEN [rooms |-> rs, emits |-> <<>>]
    ELSE LET res == setParticipantOffline(rs, Head(ids), s)
             rest == OfflineInAll(res.rooms, Tail(ids), sb, s)
         IN  [rooms |-> rest.rooms,
              emits |-> (IF res.room = None THEN <<>>
                         ELSE <<RoomUpdate(sb, Head(ids), res.room[1])>>) \o rest.emits]

\* socket.on('disconnect'): the connection has left its groups by then
onDisconnect(rs, sb, u, s) ==
    LET sb2 == [sb EXCEPT ![s] = {}]
        res == OfflineInAll(rs, getAllRooms(rs), sb2, s)
    IN  [rooms |-> res.rooms, subs |-> sb2, uuid |-> u, reply |-> None,
         emits |-> res.emits]

\* ------------------------------------------------------------- inputs
\* ids a client can put in a payload: "" (0), an id that names nothing, the
\* ids of the rooms, and the ids of the participants of any room
BlankId == 0
NoSuchId == MaxUuid + 1

ParticipantIds(room) == { room.participants[i].id : i \in DOMAIN room.participants }

RoomIdInputs == DOMAIN rooms \cup {BlankId, NoSuchId}

UserIdInputs == UNION { ParticipantIds(rooms[r]) : r \in DOMAIN rooms } \cup {NoSuchId}

\* create-room payloads: a plain one; one with a padded name, a settings
\* override and an empty round list; one with a blank name
CreateRoomInputs ==
    { [userName |-> <<"b">>, roomName |-> None, roundNames |-> <<"A", "B">>,
       settings |-> None],
      [userName |-> <<" ", "a">>, roomName |-> Some("R"), roundNames |-> <<>>,
       settings |-> Some([cardValues |-> CardOverride])],
      [userName |-> <<" ">>, roomName |-> None, roundNames |-> <<"A">>,
       settings |-> None] }

JoinRoomInputs == [roomId : RoomIdInputs, userName : UserNames]

SubmitVoteInputs == [roomId : RoomIdInputs, userId : UserIdInputs, vote : VoteInputs]

HostInputs == [roomId : RoomIdInputs, userId : UserIdInputs]

Live == { s \in Sockets : conn[s] = "live" }

\* ------------------------------------------------------------- actions
\* the server has started and the connections are open: the connection
\* handler only registers the handlers below
Init ==
    /\ rooms = <<>>
    /\ conn = [s \in Sockets |-> "live"]
    /\ subs = [s \in Sockets |-> {}]
    /\ uuid = 0
    /\ now = 0

\* a handler run: the Store, the groups and the uuid source move to res
Apply(res) ==
    /\ res.uuid <= MaxUuid
    /\ rooms' = res.rooms
    /\ subs' = res.subs
    /\ uuid' = res.uuid

CreateRoom(s, payload) ==
    /\ conn[s] = "live"
    /\ Apply(onCreateRoom(rooms, subs, uuid, now, s, payload))
    /\ UNCHANGED <<conn, now>>

JoinRoom(s, payload) ==
    /\ conn[s] = "live"
    /\ Apply(onJoinRoom(rooms, subs, uuid, now, s, payload))
    /\ UNCHANGED <<conn, now>>

SubmitVote(s, payload) ==
    /\ conn[s] = "live"
    /\ Apply(onSubmitVote(rooms, subs, uuid, now, s, payload))
    /\ UNCHANGED <<conn, now>>

RevealVotes(s, payload) ==
    /\ conn[s] = "live"
    /\ Apply(onRevealVotes(rooms, subs, uuid, now, s, payload))
    /\ UNCHANGED <<conn, now>>

NextRound(s, payload) ==
    /\ conn[s] = "live"
    /\ Apply(onNextRound(rooms, subs, uuid, now, s, payload))
    /\ UNCHANGED <<conn, now>>

Disconnect(s) ==
    /\ conn[s] = "live"
    /\ Apply(onDisconnect(rooms, subs, uuid, s))
    /\ conn' = [conn EXCEPT ![s] = "closed"]
    /\ UNCHANGED now

Next ==
    \/ \E s \in Sockets : Disconnect(s)
    \/ \E s \in Sockets, p \in CreateRoomInputs : CreateRoom(s, p)
    \/ \E s \in Sockets, p \in JoinRoomInputs : JoinRoom(s, p)
    \/ \E s \in Sockets, p \in SubmitVoteInputs : SubmitVote(s, p)
    \/ \E s \in Sockets, p \in HostInputs : RevealVotes(s, p)
    \/ \E s \in Sockets, p \in HostInputs : NextRound(s, p)

\* the gateway at one reading of the clock
Spec == Init /\ [][Next]_vars

\* --------------------------------------------------- the expiration sweep
\* The clock of this part counts units of six hours, so the twelve hours of
\* ROOM_EXPIRATION_MS are two units; the hourly cleanup job can run at any
\* reading of the clock.
ROOM_EXPIRATION_MS == 2

\* readings of the clock
MaxTime == 3

\* uuids a run with the sweep may draw: two rooms of one round
MaxClockUuid == 6

\* cleanupExpiredRooms that deletes a room whose age has reached the threshold
cleanupExpiredRooms_AtThreshold(rs, t) ==
    MapDelete(rs, { r \in DOMAIN rs : t - rs[r].createdAt >= ROOM_EXPIRATION_MS })

\* cleanupExpiredRooms(): the rooms older than the threshold are deleted
cleanupExpiredRooms(rs, t) ==
    MapDelete(rs, { r \in DOMAIN rs : t - rs[r].createdAt > ROOM_EXPIRATION_MS })

\* the runs with the sweep have one client connection, which creates rooms
\* of one round, joins them again under the creator's name and votes one
\* card; a room id is the id of a room of the Store or of a group the
\* connection is in, so also the id of a room the sweep has deleted, or an
\* id that names nothing
ClockSockets == { "s1" }

ClockCreateInputs ==
    { [userName |-> <<"b">>, roomName |-> None, roundNames |-> <<"A">>,
       settings |-> None] }

ClockRoomIds == DOMAIN rooms \cup UNION { subs[s] : s \in Sockets } \cup {NoSuchId}

ClockJoinInputs == [roomId : ClockRoomIds, userName : { <<"b">> }]

ClockVoteInputs == [roomId : ClockRoomIds, userId : UserIdInputs, vote : { "1" }]

ClockHostInputs == [roomId : ClockRoomIds, userId : UserIdInputs]

\* time passes
Tick ==
    /\ now < MaxTime
    /\ now' = now + 1
    /\ UNCHANGED <<rooms, conn, subs, uuid>>

\* the setInterval callback of startCleanupJob
Sweep ==
    /\ rooms' = cleanupExpiredRooms(rooms, now)
    /\ UNCHANGED <<conn, subs, uuid, now>>

\* a handler run at the current reading of the clock
ClockAct(res) ==
    /\ res.uuid <= MaxClockUuid
    /\ rooms' = res.rooms
    /\ subs' = res.subs
    /\ uuid' = res.uuid
    /\ UNCHANGED <<conn, now>>

ClockDisconnect(s) ==
    /\ conn[s] = "live"
    /\ rooms' = onDisconnect(rooms, subs, uuid, s).rooms
    /\ subs' = onDisconnect(rooms, subs, uuid, s).subs
    /\ conn' = [conn EXCEPT ![s] = "closed"]
    /\ UNCHANGED <<uuid, now>>

ClockNext ==
    \/ Tick
    \/ Sweep
    \/ \E s \in ClockSockets : ClockDisconnect(s)
    \/ \E s \in Live \cap ClockSockets, p \in ClockCreateInputs :
           ClockAct(onCreateRoom(rooms, subs, uuid, now, s, p))
    \/ \E s \in Live \cap ClockSockets, p \in ClockJoinInputs :
           ClockAct(onJoinRoom(rooms, subs, uuid, now, s, p))
    \/ \E s \in Live \cap ClockSockets, p \in ClockVoteInputs :
           ClockAct(onSubmitVote(rooms, subs, uuid, now, s, p))
    \/ \E s \in Live \cap ClockSockets, p \in ClockHostInputs :
           ClockAct(onRevealVotes(rooms, subs, uuid, now, s, p))
    \/ \E s \in Live \cap ClockSockets, p \in ClockHostInputs :
           ClockAct(onNextRound(rooms, subs, uuid, now, s, p))

\* the gateway, the clock and the cleanup job
SpecClock == Init /\ [][ClockNext]_vars

\* ------------------------------------------------- one room of two rounds
\* One estimation session: the host creates a room of the rounds A and B
\* with the cards 1, 2, 3 from connection s1; two more people join from
\* connection s2; everybody in the room votes; the host reveals and advances.
SessionCreateInput ==
    [userName |-> <<"h">>, roomName |-> None, roundNames |-> <<"A", "B">>,
     settings |-> Some([cardValues |-> CardOverride])]

SessionJoinInputs == [roomId : DOMAIN rooms, userName : { <<"p">>, <<"q">> }]

SessionVoteInputs ==
    [roomId : DOMAIN rooms,
     userId : UNION { ParticipantIds(rooms[r]) : r \in DOMAIN rooms },
     vote : { "2" }]

SessionHostInputs ==
    { [roomId |-> r, userId |-> rooms[r].createdBy] : r \in DOMAIN rooms }

\* a handler run of the session
SessionAct(res) ==
    /\ rooms' = res.rooms
    /\ subs' = res.subs
    /\ uuid' = res.uuid
    /\ UNCHANGED <<conn, now>>

SessionNext ==
    \/ /\ rooms = <<>>
       /\ SessionAct(onCreateRoom(rooms, subs, uuid, now, "s1", SessionCreateInput))
    \/ \E p \in SessionJoinInputs :
           SessionAct(onJoinRoom(rooms, subs, uuid, now, "s2", p))
    \/ \E s \in Sockets, p \in SessionVoteInputs :
           SessionAct(onSubmitVote(rooms, subs, uuid, now, s, p))
    \/ \E p \in SessionHostInputs :
           SessionAct(onRevealVotes(rooms, subs, uuid, now, "s1", p))
    \/ \E p \in SessionHostInputs :
           SessionAct(onNextRound(rooms, subs, uuid, now, "s1", p))

SpecSession == Init /\ [][SessionNext]_vars

\* ------------------------------------------- requests without a callback
\* A client may emit create-room or join-room without an acknowledgement
\* function.  The handler then runs as usual until callback(response), which
\* throws a TypeError inside the try block; the catch block calls callback
\* again, and that TypeError leaves the handler.  Nothing in the server
\* listens for uncaught exceptions, so the process ends.
onCreateRoomNoAck(rs, sb, u, t, s, payload) ==
    LET res == onCreateRoom(rs, sb, u, t, s, payload)
    IN  [rooms |-> res.rooms, subs |-> res.subs, uuid |-> res.uuid,
         reply |-> None, emits |-> res.emits, uncaught |-> TRUE]

onJoinRoomNoAck(rs, sb, u, t, s, payload) ==
    LET res == onJoinRoom(rs, sb, u, t, s, payload)
    IN  [rooms |-> res.rooms, subs |-> res.subs, uuid |-> res.uuid,
         reply |-> None, emits |-> res.emits, uncaught |-> TRUE]

\* a handler run that ends in an uncaught exception: the process exits, the
\* in-memory Store is gone and every connection is lost
Crash(res) ==
    /\ res.uncaught
    /\ res.uuid <= MaxUuid
    /\ rooms' = <<>>
    /\ subs' = [s \in Sockets |-> {}]
    /\ conn' = [s \in Sockets |-> "lost"]
    /\ uuid' = res.uuid
    /\ UNCHANGED now

CreateRoomNoAck(s, payload) ==
    /\ conn[s] = "live"
    /\ Crash(onCreateRoomNoAck(rooms, subs, uuid, now, s, payload))

JoinRoomNoAck(s, payload) ==
    /\ conn[s] = "live"
    /\ Crash(onJoinRoomNoAck(rooms, subs, uuid, now, s, payload))

RawNext ==
    \/ Next
    \/ \E s \in Sockets, p \in CreateRoomInputs : CreateRoomNoAck(s, p)
    \/ \E s \in Sockets, p \in JoinRoomInputs : JoinRoomNoAck(s, p)

\* the gateway with clients that may leave the callback out
SpecRaw == Init /\ [][RawNext]_vars

\* ------------------------------------------------------- the Store alone
\* The public methods of RoomService called in any order by any caller,
\* removeParticipant among them, which no handler of the gateway calls.
StoreCreateInput ==
    [userName |-> <<"b">>, roomName |-> None, roundNames |-> <<"A", "B">>,
     settings |-> None]

StoreNames == { <<"a">> }

StoreVotes == { "1" }

\* a method call: the Store and the uuid source move to res
StoreApply(res) ==
    /\ res.uuid <= MaxUuid
    /\ rooms' = res.rooms
    /\ uuid' = res.uuid
    /\ UNCHANGED <<conn, subs, now>>

\* a method call that draws no uuid
StoreSet(res) ==
    /\ rooms' = res.rooms
    /\ UNCHANGED <<conn, subs, uuid, now>>

StoreCreateRoom == StoreApply(createRoom(rooms, StoreCreateInput, uuid, now))

StoreAddParticipant(r, n) == StoreApply(addParticipant(rooms, r, n, uuid, now))

StoreRemoveParticipant(r, i) == StoreSet(removeParticipant(rooms, r, i))

StoreSubmitVote(r, i, v) == StoreSet(submitVote(rooms, r, i, v, now))

StoreRevealVotes(r) == StoreSet(revealVotes(rooms, r, now))

StoreNextRound(r) == StoreSet(nextRound(rooms, r))

StoreNext ==
    \/ StoreCreateRoom
    \/ \E r \in RoomIdInputs, n \in StoreNames : StoreAddParticipant(r, n)
    \/ \E r \in RoomIdInputs, i \in UserIdInputs : StoreRemoveParticipant(r, i)
    \/ \E r \in RoomIdInputs, i \in UserIdInputs, v \in StoreVotes :
           StoreSubmitVote(r, i, v)
    \/ \E r \in RoomIdInputs : StoreRevealVotes(r)
    \/ \E r \in RoomIdInputs : StoreNextRound(r)

SpecStore == Init /\ [][StoreNext]_vars

\* ------------------------------------------------ counting the next-rounds
\* One room, created from connection s1 at the first reading of the clock;
\* the clock is read again exactly after each next-round accepted from the
\* host, so that now is the number of those next-rounds.
RoundsJoinInputs == [roomId : DOMAIN rooms, userName : { <<"a">> }]

RoundsVoteInputs == [roomId : DOMAIN rooms, userId : UserIdInputs, vote : { "1" }]

RoundsCreateRoom(p) ==
    /\ rooms = <<>>
    /\ SessionAct(onCreateRoom(rooms, subs, uuid, now, "s1", p))

HostNextRound(p) ==
    /\ p.roomId \in DOMAIN rooms
    /\ IsHost(rooms[p.roomId], p.userId)
    /\ now < MaxTime
    /\ rooms' = onNextRound(rooms, subs, uuid, now, "s1", p).rooms
    /\ now' = now + 1
    /\ UNCHANGED <<conn, subs, uuid>>

RoundsNext ==
    \/ \E p \in CreateRoomInputs : RoundsCreateRoom(p)
    \/ \E p \in RoundsJoinInputs :
           SessionAct(onJoinRoom(rooms, subs, uuid, now, "s2", p))
    \/ \E s \in Sockets, p \in RoundsVoteInputs :
           SessionAct(onSubmitVote(rooms, subs, uuid, now, s, p))
    \/ \E p \in HostInputs :
           SessionAct(onRevealVotes(rooms, subs, uuid, now, "s1", p))
    \/ \E p \in HostInputs : HostNextRound(p)

SpecRounds == Init /\ [][RoundsNext]_vars

\* ------------------------------------------------------------ properties
Rooms == DOMAIN rooms

Rounds(r) == rooms[r].rounds

\* userId names the participant of the room flagged isCreator
NamesCreator(room, userId) ==
    \E i \in DOMAIN room.participants :
        room.participants[i].id = userId /\ room.participants[i].isCreator

NoChange(res) == res.rooms = rooms /\ res.subs = subs /\ res.uuid = uuid

\* C1: in every reachable state, a reveal-votes or next-round on an existing
\* room whose userId does not name the room's creator (another participant,
\* or nobody) changes nothing, broadcasts no room-update and emits exactly
\* one authorization error, to the calling connection only.
C1_NonHostRejected ==
    \A s \in Live, p \in HostInputs :
        (p.roomId \in Rooms /\ ~NamesCreator(rooms[p.roomId], p.userId)) =>
            LET rv == onRevealVotes(rooms, subs, uuid, now, s, p)
                nr == onNextRound(rooms, subs, uuid, now, s, p)
            IN  /\ NoChange(rv) /\ rv.reply = None
                /\ rv.emits = <<ErrorTo(s, "Only the host can reveal votes")>>
                /\ NoChange(nr) /\ nr.reply = None
                /\ nr.emits = <<ErrorTo(s, "Only the host can move to next round")>>

\* a joined participant that is not the creator asks to reveal a voting round
\* and is turned away
C1_Witness ==
    \E s \in Live, p \in HostInputs :
        /\ p.roomId \in Rooms
        /\ p.userId \in ParticipantIds(rooms[p.roomId])
        /\ ~NamesCreator(rooms[p.roomId], p.userId)
        /\ CurrentRound(rooms[p.roomId]) # None
        /\ Len(CurrentRound(rooms[p.roomId])[1].votes) > 0
        /\ onRevealVotes(rooms, subs, uuid, now, s, p).emits
               = <<ErrorTo(s, "Only the host can reveal votes")>>

\* C2: in every reachable state of every room,
\* 0 <= currentRoundIndex < len(rounds).
C2_IndexInRange ==
    \A r \in Rooms :
        0 <= rooms[r].currentRoundIndex
        /\ rooms[r].currentRoundIndex < Len(Rounds(r))

\* C2, second half: no step decreases the currentRoundIndex of a room.
C2_IndexNeverDecreases ==
    [][\A r \in Rooms : r \in DOMAIN rooms' =>
          rooms'[r].currentRoundIndex >= rooms[r].currentRoundIndex]_vars

\* the rounds, the round cursor and the status of room r are the same in
\* the result res as in the current state
Frozen(res, r) ==
    /\ res.rooms[r].rounds = rooms[r].rounds
    /\ res.rooms[r].currentRoundIndex = rooms[r].currentRoundIndex
    /\ res.rooms[r].status = rooms[r].status

\* C3: once a room is completed, every submit-vote, reveal-votes and
\* next-round leaves its rounds, currentRoundIndex and status unchanged.
C3_CompletedIsFrozen ==
    \A r \in Rooms : rooms[r].status = "completed" =>
        \A s \in Live :
            /\ \A p \in SubmitVoteInputs : p.roomId = r =>
                   Frozen(onSubmitVote(rooms, subs, uuid, now, s, p), r)
            /\ \A p \in HostInputs : p.roomId = r =>
                   /\ Frozen(onRevealVotes(rooms, subs, uuid, now, s, p), r)
                   /\ Frozen(onNextRound(rooms, subs, uuid, now, s, p), r)

\* C4: where currentRoundIndex = len(rounds)-1, a next-round accepted from
\* the creator sets the status to completed and changes nothing else of the
\* room, and no submit-vote, reveal-votes or next-round moves
\* currentRoundIndex; so no sequence of them takes it past len(rounds)-1.
C4_LastRoundTerminal ==
    \A r \in Rooms : rooms[r].currentRoundIndex = Len(Rounds(r)) - 1 =>
        \A s \in Live :
            /\ \A p \in HostInputs : p.roomId = r =>
                   LET nr == onNextRound(rooms, subs, uuid, now, s, p)
                       rv == onRevealVotes(rooms, subs, uuid, now, s, p)
                   IN  /\ NamesCreator(rooms[r], p.userId) =>
                              nr.rooms[r] = [rooms[r] EXCEPT !.status = "completed"]
                       /\ nr.rooms[r].currentRoundIndex = Len(nr.rooms[r].rounds) - 1
                       /\ rv.rooms[r].currentRoundIndex = Len(rv.rooms[r].rounds) - 1
            /\ \A p \in SubmitVoteInputs : p.roomId = r =>
                   LET sv == onSubmitVote(rooms, subs, uuid, now, s, p)
                   IN  sv.rooms[r].currentRoundIndex = Len(sv.rooms[r].rounds) - 1

\* a room of two rounds was completed on its last round, which holds a vote
C4_Witness ==
    \E r \in Rooms :
        /\ rooms[r].status = "completed"
        /\ Len(Rounds(r)) = 2
        /\ rooms[r].currentRoundIndex = 1
        /\ Len(Rounds(r)[2].votes) > 0

\* some round of room r is voting in rs and revealed in rs2
Reveals(rs, rs2, r) ==
    \E i \in DOMAIN rs[r].rounds :
        rs[r].rounds[i].status = "voting" /\ rs2[r].rounds[i].status = "revealed"

VotesOf(votes, userId) == SelectSeq(votes, LAMBDA v : v.userId = userId)

\* C6: every round holds at most one vote per participant id; an accepted
\* submit-vote leaves in the current round exactly one vote of the voter,
\* with the submitted value, and leaves every other participant's votes as
\* they were.
C6_LastWriteWins ==
    /\ \A r \in Rooms : \A i \in DOMAIN Rounds(r) :
           \A j, k \in DOMAIN Rounds(r)[i].votes :
               Rounds(r)[i].votes[j].userId = Rounds(r)[i].votes[k].userId => j = k
    /\ \A s \in Live, p \in SubmitVoteInputs :
           LET res == onSubmitVote(rooms, subs, uuid, now, s, p)
           IN  res.rooms # rooms \/ res.emits[1].event = "room-update" =>
                   LET c == rooms[p.roomId].currentRoundIndex + 1
                       before == rooms[p.roomId].rounds[c].votes
                       after == res.rooms[p.roomId].rounds[c].votes
                   IN  /\ Len(VotesOf(after, p.userId)) = 1
                       /\ VotesOf(after, p.userId)[1].value = p.vote
                       /\ \A u \in UserIdInputs \ {p.userId} :
                              VotesOf(after, u) = VotesOf(before, u)
                       /\ \A i \in DOMAIN Rounds(p.roomId) \ {c} :
                              res.rooms[p.roomId].rounds[i] = Rounds(p.roomId)[i]

\* a participant who voted "1" can submit "2" while another participant's
\* vote is in the same round
C6_Witness ==
    \E r \in Rooms :
        /\ CurrentRound(rooms[r]) # None
        /\ LET votes == CurrentRound(rooms[r])[1].votes
           IN  /\ Len(votes) = 2
               /\ votes[1].value = "2" /\ votes[2].value = "1"
               /\ \E s \in Live, p \in SubmitVoteInputs :
                      /\ p.roomId = r /\ p.userId = votes[2].userId /\ p.vote = "2"
                      /\ onSubmitVote(rooms, subs, uuid, now, s, p).rooms # rooms

\* C7: once the current round is revealed, a submit-vote does not add,
\* replace or otherwise change that round's votes.
C7_NoVoteAfterReveal ==
    \A s \in Live, p \in SubmitVoteInputs :
        (p.roomId \in Rooms /\ CurrentRound(rooms[p.roomId]) # None
           /\ CurrentRound(rooms[p.roomId])[1].status = "revealed") =>
            CurrentRound(onSubmitVote(rooms, subs, uuid, now, s, p).rooms[p.roomId])[1].votes
                = CurrentRound(rooms[p.roomId])[1].votes

\* the participants of the room that have a vote in its current round
Voters(room) ==
    IF CurrentRound(room) = None THEN {}
    ELSE { i \in DOMAIN room.participants :
             \E j \in DOMAIN CurrentRound(room)[1].votes :
                 CurrentRound(room)[1].votes[j].userId = room.participants[i].id }

\* C8: allVoted is true exactly when the number of distinct participants
\* with a vote in the current round equals the number of participants, and
\* it is false in the room that a next-round has just advanced.
C8_AllVoted ==
    /\ \A r \in Rooms :
           allVoted(rooms, r)
               = (Cardinality(Voters(rooms[r])) = Len(rooms[r].participants))
    /\ \A s \in Live, p \in HostInputs :
           LET nr == onNextRound(rooms, subs, uuid, now, s, p)
           IN  (p.roomId \in Rooms
                  /\ nr.rooms[p.roomId].currentRoundIndex
                         > rooms[p.roomId].currentRoundIndex) =>
                   ~allVoted(nr.rooms, p.roomId)

\* both participants of a room have voted, one of them is offline, and the
\* creator can advance the room to its next round
C8_Witness ==
    \E r \in Rooms :
        /\ Len(rooms[r].participants) = 2
        /\ allVoted(rooms, r)
        /\ \E i \in DOMAIN rooms[r].participants : ~rooms[r].participants[i].isOnline
        /\ \E s \in Live, p \in HostInputs :
               /\ p.roomId = r
               /\ onNextRound(rooms, subs, uuid, now, s, p).rooms[r].currentRoundIndex = 1

\* the participants of the room with the given name
Named(room, name) ==
    { i \in DOMAIN room.participants : room.participants[i].name = name }

\* C9: two joins of a room with the same userName, the second from any
\* connection, return the same participant id; after them exactly one
\* participant has that name, and the second join adds no participant and
\* changes no participant but the one it names.
C9_RejoinByName ==
    \A s1 \in Live, s2 \in Live, p \in JoinRoomInputs :
        (p.roomId \in Rooms /\ Trim(p.userName) # <<>>) =>
            LET j1 == onJoinRoom(rooms, subs, uuid, now, s1, p)
                j2 == onJoinRoom(j1.rooms, j1.subs, j1.uuid, now, s2, p)
                ps1 == j1.rooms[p.roomId].participants
                ps2 == j2.rooms[p.roomId].participants
            IN  /\ j1.reply[1].success /\ j2.reply[1].success
                /\ j2.reply[1].userId = j1.reply[1].userId
                /\ Cardinality(Named(j2.rooms[p.roomId], Trim(p.userName))) = 1
                /\ Len(ps2) = Len(ps1)
                /\ j2.uuid = j1.uuid
                /\ \A i \in DOMAIN ps1 :
                       IF ps1[i].id = j1.reply[1].userId
                       THEN ps2[i] = [ps1[i] EXCEPT !.socketId = Some(s2)]
                       ELSE ps2[i] = ps1[i]

\* a participant who joined by name is bound to one connection while the
\* other connection is live and joins under the same name
C9_Witness ==
    \E r \in Rooms, s1 \in Live, s2 \in Live :
        /\ s1 # s2
        /\ Len(rooms[r].participants) = 2
        /\ rooms[r].participants[2].socketId = Some(s1)
        /\ LET p == [roomId |-> r, userName |-> rooms[r].participants[2].name]
               j2 == onJoinRoom(rooms, subs, uuid, now, s2, p)
           IN  /\ p \in JoinRoomInputs
               /\ j2.reply[1].userId = rooms[r].participants[2].id
               /\ j2.rooms[r].participants[2].socketId = Some(s2)

\* create-room payloads with a name that is not blank and with rounds
ValidCreateRoomInputs ==
    [userName : { <<"a">>, <<" ", "b">> },
     roomName : { None, Some("R") },
     roundNames : { <<"A">>, <<"B", "A", "B">> },
     settings : { None, Some([anonymous |-> TRUE]) }]

\* C10: a create-room with a non-blank userName and a non-empty roundNames
\* returns success with a room that is the stored one, has exactly one
\* participant, who is the creator with the returned userId (= createdBy),
\* status waiting, currentRoundIndex 0, and one round per round name, in
\* order, each voting with no votes.
C10_CreateRoom ==
    \A s \in Live, p \in ValidCreateRoomInputs :
        LET res == onCreateRoom(rooms, subs, uuid, now, s, p)
            room == res.reply[1].room
        IN  /\ res.reply[1].success
            /\ room.id \notin Rooms
            /\ res.rooms = MapSet(rooms, room.id, room)
            /\ Len(room.participants) = 1
            /\ room.participants[1].isCreator
            /\ room.participants[1].id = res.reply[1].userId
            /\ room.createdBy = res.reply[1].userId
            /\ room.status = "waiting"
            /\ room.currentRoundIndex = 0
            /\ Len(room.rounds) = Len(p.roundNames)
            /\ \A i \in DOMAIN room.rounds :
                   /\ room.rounds[i].name = p.roundNames[i]
                   /\ room.rounds[i].status = "voting"
                   /\ room.rounds[i].votes = <<>>

\* a room of two rounds as create-room leaves it
C10_Witness ==
    \E r \in Rooms :
        /\ rooms[r].createdBy = r + 1
        /\ rooms[r].participants[1].socketId = None
        /\ Len(Rounds(r)) = 2
        /\ Len(rooms[r].participants) = 1
        /\ rooms[r].status = "waiting"
        /\ \A i \in DOMAIN Rounds(r) : Rounds(r)[i].votes = <<>>
        /\ \E s \in Live : r \in subs[s]

\* the positions of the participants of the room flagged isCreator
Creators(room) ==
    { i \in DOMAIN room.participants : room.participants[i].isCreator }

\* C11: in every reachable state every room has exactly one participant
\* flagged isCreator, whose id is the room's createdBy; and no step changes
\* the isCreator flag of a participant: each participant stays at its
\* position with its id and its flag.
C11_OneCreator ==
    /\ [](\A r \in Rooms :
             /\ Cardinality(Creators(rooms[r])) = 1
             /\ \A i \in Creators(rooms[r]) :
                    rooms[r].participants[i].id = rooms[r].createdBy)
    /\ [][\A r \in Rooms : r \in DOMAIN rooms' =>
             \A i \in DOMAIN rooms[r].participants :
                 /\ i \in DOMAIN rooms'[r].participants
                 /\ rooms'[r].participants[i].id = rooms[r].participants[i].id
                 /\ rooms'[r].participants[i].isCreator
                        = rooms[r].participants[i].isCreator]_vars

\* a room of two in which the creator was bound by a rejoin and has gone
\* offline, while the participant who joined holds a vote
C11_Witness ==
    \E r \in Rooms :
        /\ Len(rooms[r].participants) = 2
        /\ Creators(rooms[r]) = {1}
        /\ ~rooms[r].participants[1].isOnline
        /\ rooms[r].participants[2].socketId # None
        /\ Len(Rounds(r)) > 0
        /\ \E j \in DOMAIN Rounds(r)[1].votes :
               Rounds(r)[1].votes[j].userId = rooms[r].participants[2].id

\* the positions of the participants of the room bound to connection s
BoundTo(room, s) ==
    { i \in DOMAIN room.participants : room.participants[i].socketId = Some(s) }

\* C12: when a connection bound to participant p disconnects, p becomes
\* offline with no socketId and is otherwise the same record at the same
\* position; the rounds (so every vote), currentRoundIndex and status of the
\* room, the participants bound to other connections or to none, and
\* allVoted are unchanged.
C12_DisconnectUnbinds ==
    \A s \in Live, r \in Rooms :
        LET res == onDisconnect(rooms, subs, uuid, s)
            ps == rooms[r].participants
            ps2 == res.rooms[r].participants
        IN  /\ Len(ps2) = Len(ps)
            /\ \A i \in DOMAIN ps :
                   IF i \in BoundTo(rooms[r], s)
                   THEN ps2[i] = [ps[i] EXCEPT !.isOnline = FALSE, !.socketId = None]
                   ELSE ps2[i] = ps[i]
            /\ Frozen(res, r)
            /\ allVoted(res.rooms, r) = allVoted(rooms, r)

\* C13: when participant p is bound to connection c1 and joins again from
\* connection c2, p is online with socketId c2; a disconnect of c1 after
\* that leaves p as it is; and in every step that takes a participant from
\* online to offline, the connection the participant was bound to closes.
C13_RebindSupersedes ==
    /\ [](\A c1 \in Live, c2 \in Live, r \in Rooms :
             \A i \in BoundTo(rooms[r], c1) : c1 # c2 =>
                 LET p == [roomId |-> r, userName |-> rooms[r].participants[i].name]
                     j == onJoinRoom(rooms, subs, uuid, now, c2, p)
                     d == onDisconnect(j.rooms, j.subs, j.uuid, c1)
                 IN  /\ j.reply[1].userId = rooms[r].participants[i].id
                     /\ j.rooms[r].participants[i]
                            = [rooms[r].participants[i] EXCEPT
                                  !.isOnline = TRUE, !.socketId = Some(c2)]
                     /\ d.rooms[r].participants[i] = j.rooms[r].participants[i])
    /\ [][\A r \in Rooms : r \in DOMAIN rooms' =>
             \A i \in DOMAIN rooms[r].participants :
                 (rooms[r].participants[i].isOnline
                    /\ ~rooms'[r].participants[i].isOnline) =>
                     \E s \in Sockets :
                         /\ rooms[r].participants[i].socketId = Some(s)
                         /\ conn[s] = "live" /\ conn'[s] = "closed"]_vars

\* a participant who joined is bound to one connection, holds a vote, and
\* joins again from the other connection, after which the first connection
\* closes and the participant is still online on the second
C13_Witness ==
    \E c1 \in Live, c2 \in Live, r \in Rooms :
        /\ c1 # c2
        /\ Len(rooms[r].participants) = 2
        /\ BoundTo(rooms[r], c1) = {2}
        /\ Len(Rounds(r)) > 0
        /\ Len(Rounds(r)[1].votes) > 0
        /\ LET p == [roomId |-> r, userName |-> rooms[r].participants[2].name]
               j == onJoinRoom(rooms, subs, uuid, now, c2, p)
               d == onDisconnect(j.rooms, j.subs, j.uuid, c1)
           IN  /\ d.rooms[r].participants[2].isOnline
               /\ d.rooms[r].participants[2].socketId = Some(c2)
               /\ d.rooms[r].participants[1] = rooms[r].participants[1]

\* C14: in every reachable state, in each room at most one participant has
\* a given connection as its socketId, and no participant of any room has a
\* closed connection as its socketId.
C14_OneParticipantPerConnection ==
    \A r \in Rooms, s \in Sockets :
        /\ Cardinality(BoundTo(rooms[r], s)) <= 1
        /\ conn[s] = "closed" => BoundTo(rooms[r], s) = {}

\* C15: on a disconnect a room-update is emitted for exactly the rooms in
\* which a participant was bound to the dropped connection (the rooms whose
\* presence changes), each carrying the room as the Store holds it after
\* the unbind.
C15_BroadcastWherePresenceChanged ==
    \A s \in Live :
        LET res == onDisconnect(rooms, subs, uuid, s)
        IN  /\ \A r \in Rooms : BoundTo(rooms[r], s) # {} =>
                   \E k \in DOMAIN res.emits :
                       res.emits[k] = RoomUpdate(res.subs, r, res.rooms[r])
            /\ \A k \in DOMAIN res.emits :
                   BoundTo(rooms[res.emits[k].room.id], s) # {}

\* the payloads the gateway accepts in the current state
JoinAccepted(p) == p.roomId \in Rooms /\ Trim(p.userName) # <<>>

VoteAccepted(p) ==
    /\ p.roomId \in Rooms
    /\ CurrentRound(rooms[p.roomId]) # None
    /\ p.userId \in ParticipantIds(rooms[p.roomId])

HostAccepted(p) == p.roomId \in Rooms /\ NamesCreator(rooms[p.roomId], p.userId)

\* C16: every accepted join-room, submit-vote, reveal-votes and next-round
\* emits exactly one room-update, to the subscribers of the room, whose
\* snapshot is the whole room as the Store holds it after the action; and
\* an accepted submit-vote followed by an accepted reveal-votes or
\* next-round on the same room emits two room-updates in that order, the
\* first carrying the room after the vote and the second the room after
\* both.
C16_BroadcastsInOrder ==
    \A s \in Live :
        /\ \A p \in JoinRoomInputs : JoinAccepted(p) =>
               LET res == onJoinRoom(rooms, subs, uuid, now, s, p)
               IN  res.emits = <<RoomUpdate(res.subs, p.roomId, res.rooms[p.roomId])>>
        /\ \A p \in SubmitVoteInputs : VoteAccepted(p) =>
               LET res == onSubmitVote(rooms, subs, uuid, now, s, p)
               IN  res.emits = <<RoomUpdate(res.subs, p.roomId, res.rooms[p.roomId])>>
        /\ \A p \in HostInputs : HostAccepted(p) =>
               LET r == p.roomId
                   rv == onRevealVotes(rooms, subs, uuid, now, s, p)
                   nr == onNextRound(rooms, subs, uuid, now, s, p)
               IN  /\ CurrentRound(rooms[r]) # None =>
                          rv.emits = <<RoomUpdate(rv.subs, r, rv.rooms[r])>>
                   /\ nr.emits = <<RoomUpdate(nr.subs, r, nr.rooms[r])>>
                   /\ \A q \in SubmitVoteInputs : (q.roomId = r /\ VoteAccepted(q)) =>
                          LET sv == onSubmitVote(rooms, subs, uuid, now, s, q)
                              rv2 == onRevealVotes(sv.rooms, sv.subs, sv.uuid, now, s, p)
                              nr2 == onNextRound(sv.rooms, sv.subs, sv.uuid, now, s, p)
                          IN  /\ sv.emits \o rv2.emits
                                     = <<RoomUpdate(subs, r, sv.rooms[r]),
                                         RoomUpdate(subs, r, rv2.rooms[r])>>
                              /\ sv.emits \o nr2.emits
                                     = <<RoomUpdate(subs, r, sv.rooms[r]),
                                         RoomUpdate(subs, r, nr2.rooms[r])>>

\* both connections are subscribed to a room of two; a vote is accepted and
\* then the creator's reveal, and the two room-updates carry different rooms
C16_Witness ==
    \E s \in Live, q \in SubmitVoteInputs, p \in HostInputs :
        /\ q.roomId = p.roomId
        /\ VoteAccepted(q) /\ HostAccepted(p)
        /\ Len(rooms[q.roomId].participants) = 2
        /\ Subscribers(subs, q.roomId) = Sockets
        /\ LET sv == onSubmitVote(rooms, subs, uuid, now, s, q)
               rv2 == onRevealVotes(sv.rooms, sv.subs, sv.uuid, now, s, p)
           IN  /\ sv.rooms # rooms
               /\ rv2.rooms # sv.rooms
               /\ Len(sv.emits \o rv2.emits) = 2
               /\ sv.emits[1].room # rv2.emits[1].room

\* C17: a join-room, submit-vote, reveal-votes or next-round whose roomId
\* names no room of the Store, and a submit-vote whose userId names no
\* participant of the room, changes nothing in the Store, the groups or the
\* uuid source, emits no room-update, and reports the failure to the
\* calling connection only: join-room in its acknowledgement, the others by
\* one error event.
C17_NotFound ==
    \A s \in Live :
        /\ \A p \in JoinRoomInputs : p.roomId \notin Rooms =>
               LET res == onJoinRoom(rooms, subs, uuid, now, s, p)
               IN  /\ NoChange(res)
                   /\ res.emits = <<>>
                   /\ res.reply # None /\ ~res.reply[1].success
                   /\ (p.roomId # BlankId /\ Trim(p.userName) # <<>>) =>
                          res.reply = Failure("Room not found")
        /\ \A p \in SubmitVoteInputs :
               (p.roomId \notin Rooms
                  \/ p.userId \notin ParticipantIds(rooms[p.roomId])) =>
                   LET res == onSubmitVote(rooms, subs, uuid, now, s, p)
                   IN  /\ NoChange(res)
                       /\ res.reply = None
                       /\ res.emits = <<ErrorTo(s, "Failed to submit vote")>>
        /\ \A p \in HostInputs : p.roomId \notin Rooms =>
               LET rv == onRevealVotes(rooms, subs, uuid, now, s, p)
                   nr == onNextRound(rooms, subs, uuid, now, s, p)
               IN  /\ NoChange(rv) /\ rv.reply = None
                   /\ rv.emits = <<ErrorTo(s, "Room not found")>>
                   /\ NoChange(nr) /\ nr.reply = None
                   /\ nr.emits = <<ErrorTo(s, "Room not found")>>

\* a room of two with a vote in its current round gets a submit-vote whose
\* userId names nobody, from a connection subscribed to the room
C17_Witness ==
    \E s \in Live, p \in SubmitVoteInputs :
        /\ p.roomId \in Rooms
        /\ p.roomId \in subs[s]
        /\ Len(rooms[p.roomId].participants) = 2
        /\ CurrentRound(rooms[p.roomId]) # None
        /\ Len(CurrentRound(rooms[p.roomId])[1].votes) = 1
        /\ p.userId = NoSuchId
        /\ onSubmitVote(rooms, subs, uuid, now, s, p).emits
               = <<ErrorTo(s, "Failed to submit vote")>>

\* C18: a create-room with a blank userName or an empty roundNames is
\* answered {success: false, error}, creates no room and changes nothing;
\* and every room of the Store has at least one round.
C18_CreateRoomValidated ==
    /\ \A s \in Live, p \in CreateRoomInputs :
           (Trim(p.userName) = <<>> \/ p.roundNames = <<>>) =>
               LET res == onCreateRoom(rooms, subs, uuid, now, s, p)
               IN  /\ NoChange(res)
                   /\ res.emits = <<>>
                   /\ res.reply # None /\ ~res.reply[1].success
    /\ \A r \in Rooms : Len(Rounds(r)) >= 1

\* C19: every successful join-room acknowledges {success, room, userId} to
\* the joiner and emits both a room-update for the room and a user-joined
\* event.
C19_JoinRepliesAndNotifies ==
    \A s \in Live, p \in JoinRoomInputs : JoinAccepted(p) =>
        LET res == onJoinRoom(rooms, subs, uuid, now, s, p)
        IN  /\ res.reply # None /\ res.reply[1].success
            /\ res.reply[1].room = res.rooms[p.roomId]
            /\ res.reply[1].userId \in ParticipantIds(res.rooms[p.roomId])
            /\ \E k \in DOMAIN res.emits : res.emits[k].event = "room-update"
            /\ \E k \in DOMAIN res.emits : res.emits[k].event = "user-joined"

\* C20: in a room whose currentRoundIndex is below len(rounds)-1, nextRound
\* (and so a next-round from the creator) adds exactly one to
\* currentRoundIndex whatever the votes and the status of the round it
\* leaves; the new current round is voting with no votes and keeps its id
\* and name; the status of the room, its participants and every other
\* round are unchanged.
C20_NextRoundAdvances ==
    \A r \in Rooms : rooms[r].currentRoundIndex < Len(Rounds(r)) - 1 =>
        LET room == rooms[r]
            c == room.currentRoundIndex + 2
            after == nextRound(rooms, r).rooms[r]
        IN  /\ after.currentRoundIndex = room.currentRoundIndex + 1
            /\ after.rounds[c].status = "voting"
            /\ after.rounds[c].votes = <<>>
            /\ after.rounds[c].id = room.rounds[c].id
            /\ after.rounds[c].name = room.rounds[c].name
            /\ after.status = room.status
            /\ after.participants = room.participants
            /\ Len(after.rounds) = Len(room.rounds)
            /\ \A i \in DOMAIN room.rounds \ {c} : after.rounds[i] = room.rounds[i]
            /\ \A s \in Live :
                   onNextRound(rooms, subs, uuid, now, s,
                               [roomId |-> r, userId |-> room.createdBy]).rooms[r]
                       = after

\* the creator can skip the first round of a room of two while one of the
\* two participants has voted and the round is not revealed
C20_Witness ==
    \E r \in Rooms, s \in Live :
        /\ Len(Rounds(r)) = 2
        /\ rooms[r].currentRoundIndex = 0
        /\ Len(rooms[r].participants) = 2
        /\ Len(Rounds(r)[1].votes) = 1
        /\ Rounds(r)[1].status = "voting"
        /\ LET nr == onNextRound(rooms, subs, uuid, now, s,
                                 [roomId |-> r, userId |-> rooms[r].createdBy])
           IN  /\ nr.rooms[r].currentRoundIndex = 1
               /\ nr.rooms[r].rounds[1] = Rounds(r)[1]

\* the ids of the participants with a vote in a round
VoterIds(round) == { round.votes[j].userId : j \in DOMAIN round.votes }

\* C21: in every step, a round that the room advances into (the
\* currentRoundIndex goes up by one to that round) has no votes afterwards,
\* and every other round of every room keeps a vote of each participant
\* that had one: joins, votes, reveals, binds, unbinds and a nextRound on
\* the last round remove no vote.
C21_VotesResetOnEntry ==
    [][\A r \in Rooms : r \in DOMAIN rooms' =>
          \A i \in DOMAIN Rounds(r) :
              IF rooms'[r].currentRoundIndex = rooms[r].currentRoundIndex + 1
                 /\ i = rooms'[r].currentRoundIndex + 1
              THEN rooms'[r].rounds[i].votes = <<>>
              ELSE VoterIds(Rounds(r)[i]) \subseteq VoterIds(rooms'[r].rounds[i])]_vars

\* a room of two has advanced to its second round, which is empty, and the
\* round it left holds the votes of both participants
C21_Witness ==
    \E r \in Rooms :
        /\ Len(Rounds(r)) = 2
        /\ rooms[r].currentRoundIndex = 1
        /\ Cardinality(VoterIds(Rounds(r)[1])) = 2
        /\ Rounds(r)[2].votes = <<>>

\* the ids of the participants of a room, in list order
IdsOf(participants) == [i \in DOMAIN participants |-> participants[i].id]

\* C23: in every reachable state the participants of a room have pairwise
\* distinct ids; an accepted join-room under a name no participant has
\* appends one participant, with a fresh id, at the end; and in every step
\* the ids of the participants a room had are, in the same order, the first
\* ids of the participants it has afterwards.
C23_ParticipantsOrdered ==
    /\ [](/\ \A r \in Rooms : \A i, j \in DOMAIN rooms[r].participants :
                 rooms[r].participants[i].id = rooms[r].participants[j].id => i = j
          /\ \A s \in Live, p \in JoinRoomInputs :
                 (JoinAccepted(p) /\ Named(rooms[p.roomId], Trim(p.userName)) = {}) =>
                     LET ps == rooms[p.roomId].participants
                         res == onJoinRoom(rooms, subs, uuid, now, s, p)
                         ps2 == res.rooms[p.roomId].participants
                     IN  /\ Len(ps2) = Len(ps) + 1
                         /\ SubSeq(ps2, 1, Len(ps)) = ps
                         /\ ps2[Len(ps2)].name = Trim(p.userName)
                         /\ ps2[Len(ps2)].id = res.reply[1].userId
                         /\ ps2[Len(ps2)].id > uuid)
    /\ [][\A r \in Rooms : r \in DOMAIN rooms' =>
             /\ Len(rooms'[r].participants) >= Len(rooms[r].participants)
             /\ SubSeq(IdsOf(rooms'[r].participants), 1, Len(rooms[r].participants))
                    = IdsOf(rooms[r].participants)]_vars

\* a room whose creator was joined by two participants, in the order of
\* their joins
C23_Witness ==
    \E r \in Rooms :
        /\ Len(rooms[r].participants) = 3
        /\ rooms[r].participants[1].isCreator
        /\ rooms[r].participants[2].id < rooms[r].participants[3].id
        /\ rooms[r].participants[2].name # rooms[r].participants[3].name

\* C24: an accepted submitVote leaves the status of the room as it was,
\* except that it takes waiting to active exactly when, with the vote
\* recorded, the current round has as many voters as the room has
\* participants; and in every step in which a room becomes active it was
\* waiting, a vote was recorded in its current round and every participant
\* has then voted.
C24_WaitingToActive ==
    /\ [](\A p \in SubmitVoteInputs : VoteAccepted(p) =>
             LET room == rooms[p.roomId]
                 after == submitVote(rooms, p.roomId, p.userId, p.vote, now).rooms[p.roomId]
             IN  after.status =
                     IF room.status = "waiting"
                        /\ Cardinality(VoterIds(CurrentRound(after)[1]))
                               = Len(after.participants)
                     THEN "active" ELSE room.status)
    /\ [][\A r \in Rooms :
             (r \in DOMAIN rooms' /\ rooms'[r].status = "active"
                /\ rooms[r].status # "active") =>
                 /\ rooms[r].status = "waiting"
                 /\ rooms'[r].rounds # rooms[r].rounds
                 /\ rooms'[r].currentRoundIndex = rooms[r].currentRoundIndex
                 /\ allVoted(rooms', r)]_vars

\* a waiting room of two in which one participant has voted and the vote of
\* the other makes the room active
C24_Witness ==
    \E p \in SubmitVoteInputs :
        /\ VoteAccepted(p)
        /\ rooms[p.roomId].status = "waiting"
        /\ Len(rooms[p.roomId].participants) = 2
        /\ Len(CurrentRound(rooms[p.roomId])[1].votes) = 1
        /\ submitVote(rooms, p.roomId, p.userId, p.vote, now).rooms[p.roomId].status
               = "active"

\* C22: the revealedAt of a round is absent while the round is voting, and
\* a reveal-votes accepted from the creator on a round that is already
\* revealed leaves its revealedAt as it is.
C22_RevealedAtSetOnce ==
    /\ \A r \in Rooms : \A i \in DOMAIN Rounds(r) :
           Rounds(r)[i].status = "voting" => Rounds(r)[i].revealedAt = None
    /\ \A s \in Live, p \in ClockHostInputs :
           (HostAccepted(p) /\ CurrentRound(rooms[p.roomId]) # None
              /\ CurrentRound(rooms[p.roomId])[1].status = "revealed") =>
               CurrentRound(onRevealVotes(rooms, subs, uuid, now, s, p).rooms[p.roomId])[1].revealedAt
                   = CurrentRound(rooms[p.roomId])[1].revealedAt

\* the rooms of the Store older than the threshold at the reading t
Expired(rs, t) == { r \in DOMAIN rs : t - rs[r].createdAt > ROOM_EXPIRATION_MS }

Gone == ClockRoomIds \ Rooms

\* the ids of deleted rooms whose group a connection is still in
Deleted == UNION { subs[s] : s \in Sockets } \ Rooms

\* C27: in every state reachable with the sweep interleaved, a join-room,
\* submit-vote, reveal-votes or next-round that names an id that is no
\* longer (or never was) a room fails to its caller only, changes nothing
\* and emits no room-update; a create-room does not draw the id of a
\* deleted room; and a disconnect neither restores such a room nor emits a room-update for it.
C27_DeletedRoomNotFound ==
    \A s \in Live :
        /\ \A p \in ClockJoinInputs : p.roomId \in Gone =>
               LET res == onJoinRoom(rooms, subs, uuid, now, s, p)
               IN  /\ NoChange(res)
                   /\ res.emits = <<>>
                   /\ res.reply = Failure("Room not found")
        /\ \A p \in ClockVoteInputs : p.roomId \in Gone =>
               LET res == onSubmitVote(rooms, subs, uuid, now, s, p)
               IN  /\ NoChange(res)
                   /\ res.emits = <<ErrorTo(s, "Failed to submit vote")>>
        /\ \A p \in ClockHostInputs : p.roomId \in Gone =>
               LET rv == onRevealVotes(rooms, subs, uuid, now, s, p)
                   nr == onNextRound(rooms, subs, uuid, now, s, p)
               IN  /\ NoChange(rv)
                   /\ rv.emits = <<ErrorTo(s, "Room not found")>>
                   /\ NoChange(nr)
                   /\ nr.emits = <<ErrorTo(s, "Room not found")>>
        /\ \A p \in ClockCreateInputs :
               DOMAIN onCreateRoom(rooms, subs, uuid, now, s, p).rooms \cap Deleted = {}
        /\ LET res == onDisconnect(rooms, subs, uuid, s)
           IN  /\ DOMAIN res.rooms = Rooms
               /\ \A k \in DOMAIN res.emits : res.emits[k].room.id \in Rooms

\* the connection is still in the group of a room the sweep has deleted,
\* a younger room is in the Store, and the creator of the younger room
\* votes in the deleted room
C27_Witness ==
    \E s \in Live, r \in Gone, p \in ClockVoteInputs :
        /\ r \in subs[s]
        /\ Rooms # {}
        /\ p.roomId = r
        /\ \E r2 \in Rooms : p.userId = rooms[r2].createdBy
        /\ onSubmitVote(rooms, subs, uuid, now, s, p).emits
               = <<ErrorTo(s, "Failed to submit vote")>>

\* the participant at position i of the room has voted value in the
\* current round
HasVoted(room, i, value) ==
    \E j \in DOMAIN CurrentRound(room)[1].votes :
        /\ CurrentRound(room)[1].votes[j].userId = room.participants[i].id
        /\ CurrentRound(room)[1].votes[j].value = value

\* the session after the creation and the two joins, in its first round
SessionJoined(r) ==
    /\ rooms[r].settings.cardValues = CardOverride
    /\ Len(Rounds(r)) = 2
    /\ Rounds(r)[1].name = "A" /\ Rounds(r)[2].name = "B"
    /\ rooms[r].currentRoundIndex = 0
    /\ rooms[r].status # "completed"
    /\ Len(rooms[r].participants) = 3

\* the rest of the session from the current state: the host reveals,
\* advances, and advances again
SessionEnds(r) ==
    LET host == [roomId |-> r, userId |-> rooms[r].createdBy]
        rv == onRevealVotes(rooms, subs, uuid, now, "s1", host)
        n1 == onNextRound(rv.rooms, rv.subs, rv.uuid, now, "s1", host)
        n2 == onNextRound(n1.rooms, n1.subs, n1.uuid, now, "s1", host)
    IN  /\ rv.rooms[r].rounds[1].status = "revealed"
        /\ rv.rooms[r].rounds[1].votes = Rounds(r)[1].votes
        /\ n1.rooms[r].currentRoundIndex = 1
        /\ n1.rooms[r].rounds[2].status = "voting"
        /\ n1.rooms[r].rounds[2].votes = <<>>
        /\ n1.rooms[r].rounds[1] = rv.rooms[r].rounds[1]
        /\ n1.rooms[r].status # "completed"
        /\ n2.rooms[r].status = "completed"
        /\ n2.rooms[r].currentRoundIndex = 1

\* C25 as stated: once the two participants who joined have both voted 2,
\* allVoted is true, and the host's reveal and two advances end the session
\* as described.
C25_ScenarioAsStated ==
    \A r \in Rooms :
        (SessionJoined(r) /\ HasVoted(rooms[r], 2, "2") /\ HasVoted(rooms[r], 3, "2")) =>
            allVoted(rooms, r) /\ SessionEnds(r)

\* C25 amended: once the creator and the two participants who joined have
\* all voted 2, allVoted is true; the host's reveal makes round A revealed
\* with its votes; the host's advance makes currentRoundIndex 1 with round
\* B voting and empty; the host's second advance makes the room completed.
C25_Scenario ==
    \A r \in Rooms :
        (SessionJoined(r) /\ \A i \in 1..3 : HasVoted(rooms[r], i, "2")) =>
            allVoted(rooms, r) /\ SessionEnds(r)

\* the room of the session with the creator and the two joiners, all of
\* whom have voted 2 in round A, which is not revealed yet
C25_Witness ==
    \E r \in Rooms :
        /\ SessionJoined(r)
        /\ \A i \in 1..3 : HasVoted(rooms[r], i, "2")
        /\ Rounds(r)[1].status = "voting"
        /\ allVoted(rooms, r)

\* C28: whatever a client sends, with or without an acknowledgement
\* callback, the exception a handler raises is caught and the process keeps
\* running: in every reachable state every connection is live or closed by
\* its own disconnect, never lost with the process.
C28_ProcessNeverCrashes ==
    \A s \in Sockets : conn[s] \in {"live", "closed"}

\* every room but r is in the result res as it is in the current state,
\* and every room-update of res is for room r
OthersUntouched(res, r) ==
    /\ \A q \in Rooms \ {r} : q \in DOMAIN res.rooms /\ res.rooms[q] = rooms[q]
    /\ \A k \in DOMAIN res.emits :
           res.emits[k].event = "room-update" => res.emits[k].room.id = r

\* C29: a create-room leaves every room of the Store as it is and emits no
\* room-update, and a join-room, submit-vote, reveal-votes or next-round
\* that names room r leaves every other room as it is and emits room-updates
\* for r only.
C29_OtherRoomsUntouched ==
    \A s \in Live :
        /\ \A p \in ClockCreateInputs :
               LET res == onCreateRoom(rooms, subs, uuid, now, s, p)
               IN  /\ \A q \in Rooms : res.rooms[q] = rooms[q]
                   /\ res.emits = <<>>
        /\ \A p \in ClockJoinInputs :
               OthersUntouched(onJoinRoom(rooms, subs, uuid, now, s, p), p.roomId)
        /\ \A p \in ClockVoteInputs :
               OthersUntouched(onSubmitVote(rooms, subs, uuid, now, s, p), p.roomId)
        /\ \A p \in ClockHostInputs :
               /\ OthersUntouched(onRevealVotes(rooms, subs, uuid, now, s, p), p.roomId)
               /\ OthersUntouched(onNextRound(rooms, subs, uuid, now, s, p), p.roomId)

\* two rooms with a vote each, one revealed, and a vote accepted in the
\* other that changes it
C29_Witness ==
    \E r1 \in Rooms, r2 \in Rooms, s \in Live, p \in ClockVoteInputs :
        /\ r1 # r2
        /\ Len(Rounds(r1)[1].votes) = 1 /\ Len(Rounds(r2)[1].votes) = 1
        /\ Rounds(r2)[1].status = "revealed"
        /\ p.roomId = r1 /\ VoteAccepted(p)
        /\ onSubmitVote(rooms, subs, uuid, now, s, p).rooms[r1] # rooms[r1]
        /\ r2 \in subs[s]

\* the current round of room r in the Store rs has status st
RoundIs(rs, r, st) ==
    CurrentRound(rs[r]) # None /\ CurrentRound(rs[r])[1].status = st

\* the result res broadcasts one room-update, the room r as res holds it
BroadcastsRoom(res, r) ==
    res.emits = <<RoomUpdate(subs, r, res.rooms[r])>>

Range(seq) == { seq[i] : i \in DOMAIN seq }

\* C31: every vote stored in any round of a room has a value that is one of
\* the room's settings.cardValues.
C31_VotesAreCards ==
    \A r \in Rooms : \A i \in DOMAIN Rounds(r) : \A j \in DOMAIN Rounds(r)[i].votes :
        Rounds(r)[i].votes[j].value \in Range(rooms[r].settings.cardValues)

\* C32: in every reachable state a participant is online exactly when its
\* socketId is set, and a set socketId names a connection that has not
\* disconnected.
C32_PresenceMatchesBinding ==
    \A r \in Rooms : \A i \in DOMAIN rooms[r].participants :
        LET p == rooms[r].participants[i]
        IN  /\ p.isOnline <=> p.socketId # None
            /\ p.socketId # None => conn[p.socketId[1]] = "live"

\* the userName the create-room of room r carried: createRoom stores it as
\* the name of the creator
CreatorName(r) ==
    LET k == FindIndex({ i \in DOMAIN rooms[r].participants :
                           rooms[r].participants[i].isCreator })
    IN  rooms[r].participants[k].name

\* C33: in every state after an accepted create-room with userName u, a
\* join-room on that room with the same userName u answers with the
\* creator's participant id and adds no participant.
C33_CreatorRejoinsByName ==
    \A r \in Rooms, s \in Live :
        LET res == onJoinRoom(rooms, subs, uuid, now, s,
                              [roomId |-> r, userName |-> CreatorName(r)])
        IN  /\ res.reply # None
            /\ res.reply[1].success
            /\ res.reply[1].userId = rooms[r].createdBy
            /\ Len(res.rooms[r].participants) = Len(rooms[r].participants)

\* C34: every vote of the current round of a room is the vote of a
\* participant of the room, and when allVoted is true every participant of
\* the room has a vote in the current round.
C34_VotesOfParticipants ==
    \A r \in Rooms : CurrentRound(rooms[r]) # None =>
        LET votes == CurrentRound(rooms[r])[1].votes
        IN  /\ \A j \in DOMAIN votes : votes[j].userId \in ParticipantIds(rooms[r])
            /\ allVoted(rooms, r) =>
                   \A i \in ParticipantIds(rooms[r]) :
                       \E j \in DOMAIN votes : votes[j].userId = i

\* C35: in every reachable state, every round after the current one is
\* voting, has no votes and no revealedAt, and every round that is voting
\* has no revealedAt.
C35_RoundsAheadPristine ==
    \A r \in Rooms : \A i \in DOMAIN Rounds(r) :
        /\ i > rooms[r].currentRoundIndex + 1 =>
               /\ Rounds(r)[i].status = "voting"
               /\ Rounds(r)[i].votes = <<>>
               /\ Rounds(r)[i].revealedAt = None
        /\ Rounds(r)[i].status = "voting" => Rounds(r)[i].revealedAt = None

\* the first of two rounds is current, holds a vote and has been revealed,
\* and the second is still to come
C35_Witness ==
    \E r \in Rooms :
        /\ Len(Rounds(r)) = 2
        /\ rooms[r].currentRoundIndex = 0
        /\ Rounds(r)[1].status = "revealed"
        /\ Rounds(r)[1].revealedAt # None
        /\ Rounds(r)[1].votes # <<>>
        /\ Rounds(r)[2].status = "voting"

\* the result res has the rounds of room r as they are, but for the round
\* at currentRoundIndex
OnlyCurrentRound(res, r) ==
    /\ DOMAIN res.rooms[r].rounds = DOMAIN Rounds(r)
    /\ \A i \in DOMAIN Rounds(r) :
           i # rooms[r].currentRoundIndex + 1 => res.rooms[r].rounds[i] = Rounds(r)[i]

\* C36: a submit-vote or a reveal-votes changes no round but the one at
\* currentRoundIndex, and no step changes a round that currentRoundIndex
\* has moved past.
C36_PastRoundsFrozen ==
    /\ [](\A s \in Live :
             /\ \A p \in SubmitVoteInputs : p.roomId \in Rooms =>
                    OnlyCurrentRound(onSubmitVote(rooms, subs, uuid, now, s, p), p.roomId)
             /\ \A p \in HostInputs : p.roomId \in Rooms =>
                    OnlyCurrentRound(onRevealVotes(rooms, subs, uuid, now, s, p), p.roomId))
    /\ [][\A r \in Rooms : r \in DOMAIN rooms' =>
             \A i \in DOMAIN Rounds(r) :
                 i <= rooms[r].currentRoundIndex =>
                     /\ i \in DOMAIN rooms'[r].rounds
                     /\ rooms'[r].rounds[i] = Rounds(r)[i]]_vars

\* the first round was revealed with a vote and left behind, and the second
\* round has since taken a vote
C36_Witness ==
    \E r \in Rooms :
        /\ rooms[r].currentRoundIndex = 1
        /\ Rounds(r)[1].status = "revealed"
        /\ Rounds(r)[1].votes # <<>>
        /\ Rounds(r)[2].votes # <<>>

\* the place of a room status in the order waiting, active, completed
StatusRank(status) ==
    CASE status = "waiting" -> 0
      [] status = "active" -> 1
      [] status = "completed" -> 2

\* C37: no step moves the status of a room backwards in the order waiting,
\* active, completed.
C37_StatusNeverGoesBack ==
    [][\A r \in Rooms : r \in DOMAIN rooms' =>
          StatusRank(rooms'[r].status) >= StatusRank(rooms[r].status)]_vars

\* an active room where a participant that joined after the votes has not
\* voted, so that allVoted is false again, and a vote has come in since
C37_Witness ==
    \E r \in Rooms :
        /\ rooms[r].status = "active"
        /\ Len(rooms[r].participants) = 2
        /\ ~allVoted(rooms, r)
        /\ CurrentRound(rooms[r]) # None
        /\ \E j \in DOMAIN CurrentRound(rooms[r])[1].votes :
               CurrentRound(rooms[r])[1].votes[j].userId = rooms[r].createdBy

\* C38: with now the number of next-rounds accepted from the host, a room
\* of n rounds has currentRoundIndex = now and is not completed while
\* now < n, and is completed from now = n on.
C38_CompletedAfterNRounds ==
    \A r \in Rooms :
        LET n == Len(Rounds(r))
        IN  /\ now < n => (rooms[r].currentRoundIndex = now
                           /\ rooms[r].status # "completed")
            /\ now >= n => rooms[r].status = "completed"

\* the live connections that are the socketId of a participant of room
BoundLive(room) ==
    { s \in Live : \E i \in DOMAIN room.participants :
                       room.participants[i].socketId = Some(s) }

\* C39: in every reachable state every live connection bound to a
\* participant of a room is in the group of the room; and an accepted
\* join-room binds the joining connection and sends its room-update to
\* every live connection bound in the room, the joining one among them.
C39_BoundAreSubscribed ==
    /\ \A r \in Rooms : BoundLive(rooms[r]) \subseteq Subscribers(subs, r)
    /\ \A s \in Live, p \in JoinRoomInputs : JoinAccepted(p) =>
           LET res == onJoinRoom(rooms, subs, uuid, now, s, p)
           IN  /\ s \in BoundLive(res.rooms[p.roomId])
               /\ res.emits # <<>>
               /\ \A k \in DOMAIN res.emits :
                      BoundLive(res.rooms[p.roomId]) \subseteq res.emits[k].to

\* two live connections are bound to the two participants of a room, one
\* of them to the creator
C39_Witness ==
    \E r \in Rooms :
        /\ Cardinality(BoundLive(rooms[r])) = 2
        /\ \E i \in DOMAIN rooms[r].participants :
               /\ rooms[r].participants[i].isCreator
               /\ rooms[r].participants[i].socketId # None

====
